---- MODULE Spec2Model ----
(***************************************************************************)
(* MongoDBSubprocess (src/impulse/mongodb_subprocess.ts): the controller   *)
(* that runs one mongod child process.  The state is the controller's      *)
(* fields, the closures of every _start() and stop() invocation (resolved  *)
(* flag, timers, promise state) and the child processes as the event loop  *)
(* sees them.  Every action is one event-loop turn: a public call, or one  *)
(* callback (probe result, data chunk, 'error', 'exit', timer).            *)
(***************************************************************************)
EXTENDS Integers, Sequences, FiniteSets, TLC

\* Bounds of the model.
MaxAttempts == 2      \* _start() invocations
MaxCalls == 3         \* start() calls
MaxStops == 2         \* stop() calls made by the host application

Attempts == 1..MaxAttempts

Streams == {"stdout", "stderr"}

\* Output chunks, as sequences of words; a String.includes() is a search
\* for a contiguous run of words, letter case included.
Chunks ==
    { <<"Waiting", "for", "connections">>,
      <<"NETWORK", "waiting", "for", "connections", "on", "port">>,
      <<"WAITING", "FOR", "CONNECTIONS">>,
      <<"shutting", "down">> }

\* Error codes the probe's listen() can fail with; "listening" is success.
ProbeCodes == {"listening", "EADDRINUSE", "EACCES"}

\* The port the constructor falls back to.
DefaultPort == 27017

\* Configurations given to the constructor (fields left out are undefined):
\* a disabled one, one that only enables the subprocess, and one that sets
\* every option, cache size included.
ConfigInputs ==
    { [enabled |-> FALSE],
      [enabled |-> TRUE],
      [enabled |-> TRUE, mongodPath |-> "mongod", dbPath |-> "./.mongodb-test-data",
       port |-> 27018, logPath |-> "./logs/mongodb-test.log",
       wiredTigerCacheSizeGB |-> 1] }

VARIABLES
    input,            \* the MongoSubprocessConfig the constructor was given
    config,           \* this.config, but for its field `enabled`
    enabled,          \* this.config.enabled
    process,          \* this.process: 0 is null, a > 0 the child spawned by attempt a
    isRunning,        \* this.isRunning
    startupPromise,   \* this.startupPromise: 0 is null, a > 0 the promise of attempt a
    nAttempts,        \* number of _start() invocations so far
    probe,            \* per attempt: the port probe ("none", "pending" or its result)
    outcome,          \* per attempt: state of the promise _start() returned
    error,            \* per attempt: the error that promise rejected with
    settleCalls,      \* per attempt: calls made to the executor's resolve/reject
    resolved,         \* per attempt: the closure's `resolved` flag
    startupTimeout,   \* per attempt: the 30 s timer
    firstSignal,      \* per attempt: the first signal that arrived after the spawn
    child,            \* per attempt: the child process ("none", "alive", "exited")
    errored,          \* per attempt: the child has emitted 'error'
    signals,          \* per attempt: the signals kill() has sent to the child
    args,             \* per attempt: the argument list given to spawn()
    uri,              \* the value the last getConnectionUri() returned ("none": no call yet)
    calls,            \* start() calls: the attempt whose promise each returned (0: none)
    stops             \* stop() invocations: [proc, state, timeout, caller]

vars == <<input, config, uri, args, enabled, process, isRunning, startupPromise, nAttempts, probe, outcome,
          error, settleCalls, resolved, startupTimeout, firstSignal, child,
          errored, signals, calls, stops>>

\* The whole state as one value, so that a handler is a function from state to state.
Cur ==
    [input |-> input, config |-> config, uri |-> uri, args |-> args,
     enabled |-> enabled, process |-> process, isRunning |-> isRunning,
     startupPromise |-> startupPromise, nAttempts |-> nAttempts, probe |-> probe,
     outcome |-> outcome, error |-> error, settleCalls |-> settleCalls,
     resolved |-> resolved, startupTimeout |-> startupTimeout,
     firstSignal |-> firstSignal, child |-> child, errored |-> errored,
     signals |-> signals, calls |-> calls, stops |-> stops]

Commit(S) ==
    /\ input' = S.input
    /\ config' = S.config
    /\ uri' = S.uri
    /\ args' = S.args
    /\ enabled' = S.enabled
    /\ process' = S.process
    /\ isRunning' = S.isRunning
    /\ startupPromise' = S.startupPromise
    /\ nAttempts' = S.nAttempts
    /\ probe' = S.probe
    /\ outcome' = S.outcome
    /\ error' = S.error
    /\ settleCalls' = S.settleCalls
    /\ resolved' = S.resolved
    /\ startupTimeout' = S.startupTimeout
    /\ firstSignal' = S.firstSignal
    /\ child' = S.child
    /\ errored' = S.errored
    /\ signals' = S.signals
    /\ calls' = S.calls
    /\ stops' = S.stops

----------------------------------------------------------------------------
\* The configuration.

\* obj.field is not undefined.
Has(obj, field) == field \in DOMAIN obj

\* constructor: this.config, every field it assigns but `enabled`.
constructor(cfg) ==
    [mongodPath |-> IF Has(cfg, "mongodPath") /\ cfg.mongodPath # ""
                    THEN cfg.mongodPath ELSE "mongod",
     dbPath |-> IF Has(cfg, "dbPath") /\ cfg.dbPath # ""
                THEN cfg.dbPath ELSE "<cwd>/.mongodb-data",
     port |-> IF Has(cfg, "port") /\ cfg.port # 0 THEN cfg.port ELSE DefaultPort,
     logPath |-> IF Has(cfg, "logPath") /\ cfg.logPath # ""
                 THEN cfg.logPath ELSE "<cwd>/logs/mongodb.log"]

\* The argument list _start() builds for spawn().
buildArgs(cfg) ==
    LET base == <<"--dbpath", cfg.dbPath,
                  "--port", ToString(cfg.port),
                  "--logpath", cfg.logPath,
                  "--bind_ip", "127.0.0.1">>
    IN IF Has(cfg, "wiredTigerCacheSizeGB")
       THEN base \o <<"--wiredTigerCacheSizeGB", ToString(cfg.wiredTigerCacheSizeGB)>>
       ELSE base

\* Variant: the URI is built with the default port, not the configured one.
getConnectionUri_defaultPort(S) == "mongodb://127.0.0.1:" \o ToString(DefaultPort)

getConnectionUri(S) == "mongodb://127.0.0.1:" \o ToString(S.config.port)

----------------------------------------------------------------------------
\* Promise primitives.

\* resolve() of the executor of attempt a: only a pending promise changes.
Resolve(S, a) ==
    [S EXCEPT !.settleCalls[a] = @ + 1,
              !.outcome[a] = IF @ = "pending" THEN "fulfilled" ELSE @]

\* reject(err) of the executor of attempt a.
Reject(S, a, err) ==
    [S EXCEPT !.settleCalls[a] = @ + 1,
              !.outcome[a] = IF @ = "pending" THEN "rejected" ELSE @,
              !.error[a] = IF S.outcome[a] = "pending" THEN err ELSE @]

\* An exception inside the async function _start(): its promise rejects.
Throw(S, a, err) ==
    [S EXCEPT !.outcome[a] = "rejected", !.error[a] = err]

----------------------------------------------------------------------------
\* stop(): the part that runs synchronously in the caller's turn.

stop(S, who) ==
    IF S.process = 0 \/ ~S.isRunning
    THEN [S EXCEPT !.stops = Append(@, [proc |-> 0, state |-> "fulfilled",
                                         timeout |-> "unset", caller |-> who])]
    ELSE [S EXCEPT !.stops = Append(@, [proc |-> S.process, state |-> "pending",
                                         timeout |-> "armed", caller |-> who]),
                   !.signals[S.process] = @ \cup {"SIGTERM"}]

\* Variant: the grace timer's callback resolves without escalating.
stopTimeout_noKill(S, i) ==
    [S EXCEPT !.stops[i].timeout = "fired", !.stops[i].state = "fulfilled"]

\* Variant: the grace timer's callback also resets the controller's fields.
stopTimeout_clears(S, i) ==
    LET S1 == IF S.process # 0
              THEN [S EXCEPT !.signals[S.process] = @ \cup {"SIGKILL"}]
              ELSE S
    IN [S1 EXCEPT !.stops[i].timeout = "fired", !.stops[i].state = "fulfilled",
                  !.isRunning = FALSE, !.process = 0, !.startupPromise = 0]

\* The grace timer of stop invocation i fires.
stopTimeout(S, i) ==
    LET S1 == IF S.process # 0
              THEN [S EXCEPT !.signals[S.process] = @ \cup {"SIGKILL"}]
              ELSE S
    IN [S1 EXCEPT !.stops[i].timeout = "fired", !.stops[i].state = "fulfilled"]

\* Variant: the once('exit') listener leaves this.startupPromise as it is.
stopOnExit_keepPromise(S, a) ==
    IF \E i \in DOMAIN S.stops : S.stops[i].proc = a
    THEN [S EXCEPT !.isRunning = FALSE,
                   !.process = 0,
                   !.stops = [i \in DOMAIN @ |->
                        IF @[i].proc = a
                        THEN [@[i] EXCEPT !.state = "fulfilled",
                                          !.timeout = IF @ = "armed" THEN "cleared" ELSE @]
                        ELSE @[i]]]
    ELSE S

\* Variant: the once('exit') listener does not clear the grace timer.
stopOnExit_noClear(S, a) ==
    IF \E i \in DOMAIN S.stops : S.stops[i].proc = a
    THEN [S EXCEPT !.isRunning = FALSE,
                   !.process = 0,
                   !.startupPromise = 0,
                   !.stops = [i \in DOMAIN @ |->
                        IF @[i].proc = a
                        THEN [@[i] EXCEPT !.state = "fulfilled"]
                        ELSE @[i]]]
    ELSE S

\* The once('exit') listeners that stop() invocations registered on child a.
stopOnExit(S, a) ==
    IF \E i \in DOMAIN S.stops : S.stops[i].proc = a
    THEN [S EXCEPT !.isRunning = FALSE,
                   !.process = 0,
                   !.startupPromise = 0,
                   !.stops = [i \in DOMAIN @ |->
                        IF @[i].proc = a
                        THEN [@[i] EXCEPT !.state = "fulfilled",
                                          !.timeout = IF @ = "armed" THEN "cleared" ELSE @]
                        ELSE @[i]]]
    ELSE S

----------------------------------------------------------------------------
\* The closures of one startup attempt.

cleanup(S, a) ==
    [S EXCEPT !.startupTimeout[a] = IF @ = "armed" THEN "cleared" ELSE @]

\* Variant: doResolve without its `resolved` guard.
doResolve_noGuard(S, a) ==
    Resolve([cleanup([S EXCEPT !.resolved[a] = TRUE], a)
               EXCEPT !.isRunning = TRUE], a)

doResolve(S, a) ==
    IF S.resolved[a] THEN S
    ELSE Resolve([cleanup([S EXCEPT !.resolved[a] = TRUE], a)
                    EXCEPT !.isRunning = TRUE], a)

doReject(S, a, err) ==
    IF S.resolved[a] THEN S
    ELSE Reject(stop(cleanup([S EXCEPT !.resolved[a] = TRUE], a), "doReject"), a, err)

\* hay.includes(needle)
Includes(hay, needle) ==
    \E i \in 1..(Len(hay) - Len(needle) + 1) :
        SubSeq(hay, i, i + Len(needle) - 1) = needle

\* The condition of the stdout and stderr 'data' listeners.
IsReadyChunk(output) ==
    \/ Includes(output, <<"Waiting", "for", "connections">>)
    \/ Includes(output, <<"waiting", "for", "connections">>)

onData(S, a, stream, output) ==
    IF IsReadyChunk(output) THEN doResolve(S, a) ELSE S

onError(S, a) == doReject(S, a, "SpawnError")

\* Variant: the 'exit' listener does not reject a startup still pending.
onExit_noReject(S, a) ==
    stopOnExit([S EXCEPT !.isRunning = FALSE, !.process = 0], a)

onExit(S, a) ==
    LET S1 == [S EXCEPT !.isRunning = FALSE, !.process = 0]
        S2 == IF ~S1.resolved[a] THEN doReject(S1, a, "PrematureExit") ELSE S1
    IN stopOnExit(S2, a)

onStartupTimeout(S, a) ==
    doReject([S EXCEPT !.startupTimeout[a] = "fired"], a, "StartupTimeout")

----------------------------------------------------------------------------
\* start() and _start().

\* The outcome of checkPortAvailable for a result of the probe's listen().
checkPortAvailable(code) ==
    IF code = "listening" THEN "ok"
    ELSE IF code = "EADDRINUSE" THEN "PortConflict"
    ELSE "PreflightError"

\* Variant: the executor never arms the startup timer.
spawn_noTimer(S, a) ==
    [S EXCEPT !.process = a, !.child[a] = "alive", !.args[a] = buildArgs(S.config)]

\* new Promise(...) in _start(): spawn, register the listeners, arm the timer.
spawn(S, a) ==
    [S EXCEPT !.process = a, !.child[a] = "alive", !.args[a] = buildArgs(S.config),
              !.startupTimeout[a] = "armed"]

\* _start() up to its await.
startSync(S, a) ==
    IF S.isRunning
    THEN [S EXCEPT !.nAttempts = a, !.outcome[a] = "fulfilled"]
    ELSE [S EXCEPT !.nAttempts = a, !.outcome[a] = "pending", !.probe[a] = "pending"]

\* Variant: the result of checkPortAvailable is not awaited.
startResume_noAwait(S, a, code, fsOk) ==
    LET S1 == [S EXCEPT !.probe[a] = code]
    IN IF ~fsOk THEN Throw(S1, a, "FsError") ELSE spawn(S1, a)

\* _start() after its await: the probe reported `code`; fsOk says whether
\* creating the data and log directories succeeded.
startResume(S, a, code, fsOk) ==
    LET S1 == [S EXCEPT !.probe[a] = code]
        r == checkPortAvailable(code)
    IN IF r # "ok" THEN Throw(S1, a, r)
       ELSE IF ~fsOk THEN Throw(S1, a, "FsError")
       ELSE spawn(S1, a)

\* Variant: start() without the check of this.startupPromise.
start_noDedup(S) ==
    IF ~S.enabled THEN [S EXCEPT !.calls = Append(@, 0)]
    ELSE LET a == S.nAttempts + 1
         IN [startSync(S, a) EXCEPT !.startupPromise = a, !.calls = Append(@, a)]

\* Variant: start() without the check of config.enabled.
start_ignoreEnabled(S) ==
    IF S.startupPromise # 0 THEN [S EXCEPT !.calls = Append(@, S.startupPromise)]
    ELSE LET a == S.nAttempts + 1
         IN [startSync(S, a) EXCEPT !.startupPromise = a, !.calls = Append(@, a)]

start(S) ==
    IF ~S.enabled THEN [S EXCEPT !.calls = Append(@, 0)]
    ELSE IF S.startupPromise # 0 THEN [S EXCEPT !.calls = Append(@, S.startupPromise)]
    ELSE LET a == S.nAttempts + 1
         IN [startSync(S, a) EXCEPT !.startupPromise = a, !.calls = Append(@, a)]

----------------------------------------------------------------------------
\* The first signal of an attempt to arrive (history, not read by the code).
Arrive(S, a, sig) ==
    [S EXCEPT !.firstSignal[a] = IF @ = "none" THEN sig ELSE @]

UserStops == {i \in DOMAIN stops : stops[i].caller = "user"}

Init ==
    /\ input \in ConfigInputs
    /\ config = constructor(input)
    /\ enabled = input.enabled
    /\ uri = "none"
    /\ args = [a \in Attempts |-> <<>>]
    /\ process = 0
    /\ isRunning = FALSE
    /\ startupPromise = 0
    /\ nAttempts = 0
    /\ probe = [a \in Attempts |-> "none"]
    /\ outcome = [a \in Attempts |-> "none"]
    /\ error = [a \in Attempts |-> "none"]
    /\ settleCalls = [a \in Attempts |-> 0]
    /\ resolved = [a \in Attempts |-> FALSE]
    /\ startupTimeout = [a \in Attempts |-> "unset"]
    /\ firstSignal = [a \in Attempts |-> "none"]
    /\ child = [a \in Attempts |-> "none"]
    /\ errored = [a \in Attempts |-> FALSE]
    /\ signals = [a \in Attempts |-> {}]
    /\ calls = <<>>
    /\ stops = <<>>

\* The host application calls start().
StartCall ==
    /\ Len(calls) < MaxCalls
    /\ (enabled /\ startupPromise = 0) => nAttempts < MaxAttempts
    /\ Commit(start(Cur))

\* The host application calls stop().
StopCall ==
    /\ Cardinality(UserStops) < MaxStops
    /\ Commit(stop(Cur, "user"))

\* The host application calls getConnectionUri().
GetConnectionUri ==
    Commit([Cur EXCEPT !.uri = getConnectionUri(Cur)])

\* The port probe of attempt a reports, and _start() resumes.
ProbeResult(a) ==
    /\ probe[a] = "pending"
    /\ \E code \in ProbeCodes, fsOk \in BOOLEAN :
          Commit(startResume(Cur, a, code, fsOk))

\* The child of attempt a writes a chunk to stdout or stderr.
Data(a) ==
    /\ child[a] # "none"
    /\ \E stream \in Streams, output \in Chunks :
          Commit(onData(IF IsReadyChunk(output) THEN Arrive(Cur, a, "ready") ELSE Cur,
                        a, stream, output))

\* The child of attempt a emits 'error'.
ErrorEvent(a) ==
    /\ child[a] = "alive"
    /\ ~errored[a]
    /\ Commit(onError(Arrive([Cur EXCEPT !.errored[a] = TRUE], a, "error"), a))

\* The child of attempt a emits 'exit'.
Exit(a) ==
    /\ child[a] = "alive"
    /\ Commit(onExit(Arrive([Cur EXCEPT !.child[a] = "exited"], a, "exit"), a))

\* The startup timer of attempt a fires.
StartupTimeoutFires(a) ==
    /\ startupTimeout[a] = "armed"
    /\ Commit(onStartupTimeout(Arrive(Cur, a, "timeout"), a))

\* The grace timer of stop invocation i fires.
StopTimeoutFires(i) ==
    /\ i \in DOMAIN stops
    /\ stops[i].timeout = "armed"
    /\ Commit(stopTimeout(Cur, i))

Next ==
    \/ StartCall
    \/ StopCall
    \/ GetConnectionUri
    \/ \E a \in Attempts : ProbeResult(a)
    \/ \E a \in Attempts : Data(a)
    \/ \E a \in Attempts : ErrorEvent(a)
    \/ \E a \in Attempts : Exit(a)
    \/ \E a \in Attempts : StartupTimeoutFires(a)
    \/ \E i \in 1..(MaxStops + MaxAttempts) : StopTimeoutFires(i)

Spec == Init /\ [][Next]_vars

\* Timers fire and the port probe reports.
Fairness ==
    /\ \A a \in Attempts : WF_vars(ProbeResult(a))
    /\ \A a \in Attempts : WF_vars(StartupTimeoutFires(a))
    /\ \A i \in 1..(MaxStops + MaxAttempts) : WF_vars(StopTimeoutFires(i))

\* The liveness properties are about an enabled controller and read neither
\* the port nor the argument list: they are checked for the configuration
\* that sets every option.
LiveInit == Init /\ Has(input, "wiredTigerCacheSizeGB")

LiveSpec == LiveInit /\ [][Next]_vars /\ Fairness

----------------------------------------------------------------------------
\* Vocabulary of the properties.

Settled == {"fulfilled", "rejected"}

\* The outcome the caller of start() call i observes.
CallOutcome(i) == IF calls[i] = 0 THEN "fulfilled" ELSE outcome[calls[i]]

\* This step is a start() call / a stop() call of the host application.
StartStep == Len(calls') = Len(calls) + 1

UserStopStep ==
    /\ Len(stops') = Len(stops) + 1
    /\ stops'[Len(stops')].caller = "user"

TypeOK ==
    /\ input \in ConfigInputs
    /\ enabled \in BOOLEAN
    /\ process \in 0..MaxAttempts
    /\ isRunning \in BOOLEAN
    /\ startupPromise \in 0..MaxAttempts
    /\ nAttempts \in 0..MaxAttempts
    /\ \A a \in Attempts :
          /\ probe[a] \in {"none", "pending"} \cup ProbeCodes
          /\ outcome[a] \in {"none", "pending"} \cup Settled
          /\ startupTimeout[a] \in {"unset", "armed", "cleared", "fired"}
          /\ child[a] \in {"none", "alive", "exited"}
          /\ signals[a] \subseteq {"SIGTERM", "SIGKILL"}
    /\ \A i \in DOMAIN stops : stops[i].state \in {"pending", "fulfilled"}

----------------------------------------------------------------------------
\* C1: for a spawned attempt the executor's resolve/reject is called at most
\* once, the promise is pending exactly as long as no signal has arrived, and
\* its outcome is the one the first signal to arrive dictates (readiness:
\* fulfilled; 'error': SpawnError; 'exit': PrematureExit; timer:
\* StartupTimeout), whatever arrives later.
C1_ExactlyOnce ==
    \A a \in Attempts : child[a] # "none" =>
        /\ settleCalls[a] <= 1
        /\ (firstSignal[a] = "none") <=> (outcome[a] = "pending")
        /\ (firstSignal[a] = "none") <=> (settleCalls[a] = 0)
        /\ firstSignal[a] = "ready" => outcome[a] = "fulfilled" /\ error[a] = "none"
        /\ firstSignal[a] = "error" => outcome[a] = "rejected" /\ error[a] = "SpawnError"
        /\ firstSignal[a] = "exit" => outcome[a] = "rejected" /\ error[a] = "PrematureExit"
        /\ firstSignal[a] = "timeout" =>
              outcome[a] = "rejected" /\ error[a] = "StartupTimeout"

\* The timer won, and the readiness marker, 'error' and 'exit' came after it.
C1_Witness ==
    \E a \in Attempts :
        /\ firstSignal[a] = "timeout"
        /\ child[a] = "exited"
        /\ errored[a]
        /\ outcome[a] = "rejected"

\* Readiness won, and 'error' and 'exit' came after it.
C1_WitnessReady ==
    \E a \in Attempts :
        /\ firstSignal[a] = "ready"
        /\ child[a] = "exited"
        /\ errored[a]
        /\ outcome[a] = "fulfilled"

\* C2: a start() call made on an enabled controller while an attempt is in
\* flight (preflight included) or while Running starts no attempt, no probe
\* and no process, and returns the promise of the attempt that is there.
C2_StartIdempotent ==
    [][(/\ StartStep
        /\ enabled
        /\ \/ isRunning
           \/ startupPromise # 0 /\ outcome[startupPromise] = "pending")
       => /\ startupPromise # 0
          /\ calls'[Len(calls')] = startupPromise
          /\ startupPromise' = startupPromise
          /\ nAttempts' = nAttempts
          /\ probe' = probe
          /\ child' = child
          /\ outcome' = outcome]_vars

\* Three callers share attempt 1: one joined during the preflight or the
\* startup, and the attempt, with its one process, reached Running.
C2_Witness ==
    /\ Len(calls) = 3
    /\ \A i \in 1..3 : calls[i] = 1
    /\ nAttempts = 1
    /\ isRunning
    /\ child[1] = "alive"

\* C3 (as claimed): an attempt rejected by the startup timer has had a
\* termination signal sent to its process.
C3_TimeoutKills ==
    \A a \in Attempts : error[a] = "StartupTimeout" => signals[a] # {}

\* C4 (as claimed): an attempt rejected by a port conflict, another preflight
\* error, a spawn error, a premature exit or the timeout is no longer the
\* PendingStartup, so that the next start() begins a new attempt.
C4_RejectionClears ==
    \A a \in Attempts :
        (/\ outcome[a] = "rejected"
         /\ error[a] \in {"PortConflict", "PreflightError", "SpawnError",
                          "PrematureExit", "StartupTimeout"})
        => startupPromise # a

StopIds == 1..(MaxStops + MaxAttempts)

\* C5: a stop() call made while Running sends SIGTERM and is pending; if its
\* grace timer fires (the exit was not observed in time) SIGKILL is sent to
\* that process; a stop() promise is only ever pending or fulfilled, and a
\* pending one is eventually fulfilled.
C5_ShutdownEscalation ==
    /\ [][(UserStopStep /\ isRunning)
            => /\ process # 0
               /\ "SIGTERM" \in signals'[process]
               /\ stops'[Len(stops')].proc = process
               /\ stops'[Len(stops')].state = "pending"]_vars
    /\ [][\A i \in DOMAIN stops :
            (stops[i].timeout = "armed" /\ stops'[i].timeout = "fired")
            => /\ child[stops[i].proc] = "alive"
               /\ "SIGKILL" \in signals'[stops[i].proc]
               /\ stops'[i].state = "fulfilled"]_vars
    /\ [](\A i \in DOMAIN stops : stops[i].state \in {"pending", "fulfilled"})
    /\ \A i \in StopIds :
          (i \in DOMAIN stops /\ stops[i].state = "pending")
             ~> (i \in DOMAIN stops /\ stops[i].state = "fulfilled")

\* A stop() made while Running was fulfilled by its grace timer, SIGKILL sent,
\* while the process has still not exited.
C5_Witness ==
    \E i \in DOMAIN stops :
        /\ stops[i].caller = "user"
        /\ stops[i].timeout = "fired"
        /\ stops[i].state = "fulfilled"
        /\ signals[stops[i].proc] = {"SIGTERM", "SIGKILL"}
        /\ child[stops[i].proc] = "alive"

\* C6 (as claimed): when a pending stop() promise fulfils, the process has
\* exited or has been sent SIGKILL, and the PendingStartup is cleared.
C6_StopFulfilsCleared ==
    [][\A i \in DOMAIN stops :
        (stops[i].state = "pending" /\ stops'[i].state = "fulfilled")
        => /\ startupPromise' = 0
           /\ \/ child'[stops[i].proc] = "exited"
              \/ "SIGKILL" \in signals'[stops[i].proc]]_vars

\* C7 (as claimed): a stop() call is a no-op exactly when this.process is
\* null; otherwise it sends SIGTERM to the process and waits for its exit.
C7_StopNoOpIffNoHandle ==
    [][UserStopStep
        => /\ (process = 0) <=> (stops'[Len(stops')].proc = 0)
           /\ process # 0 =>
                 /\ "SIGTERM" \in signals'[process]
                 /\ stops'[Len(stops')].state = "pending"]_vars

\* C8: a probe that failed with EADDRINUSE rejects the attempt with the
\* port-conflict error, any other failure with the generic preflight error;
\* the attempt has then spawned nothing, has not run doResolve, and
\* isRunning is false while it is the PendingStartup.
C8_PreflightRejection ==
    \A a \in Attempts :
        probe[a] \in ProbeCodes \ {"listening"} =>
            /\ outcome[a] = "rejected"
            /\ error[a] = IF probe[a] = "EADDRINUSE" THEN "PortConflict"
                          ELSE "PreflightError"
            /\ child[a] = "none"
            /\ ~resolved[a]
            /\ startupPromise = a => ~isRunning /\ process = 0

\* Both kinds of probe failure happened: attempt 1 was stopped after Running
\* and attempt 2 met a port conflict.
C8_Witness ==
    \E a \in Attempts :
        /\ probe[a] = "EADDRINUSE"
        /\ error[a] = "PortConflict"
        /\ a > 1

\* An attempt's probe failed with another error.
C8_WitnessOther ==
    \E a \in Attempts : probe[a] = "EACCES" /\ error[a] = "PreflightError"

\* C9: when the exit of a process that a stop() is waiting for is observed,
\* the controller is in its initial state (no handle, isRunning false, no
\* PendingStartup), and a start() call made in that state begins a new
\* attempt with a new preflight, whose process is spawned only afterwards.
C9_Reentrant ==
    /\ [][\A a \in Attempts :
            (/\ child[a] = "alive" /\ child'[a] = "exited"
             /\ \E i \in DOMAIN stops : stops[i].proc = a)
            => process' = 0 /\ ~isRunning' /\ startupPromise' = 0]_vars
    /\ [][(/\ StartStep /\ enabled
           /\ process = 0 /\ ~isRunning /\ startupPromise = 0)
          => /\ nAttempts' = nAttempts + 1
             /\ startupPromise' = nAttempts'
             /\ calls'[Len(calls')] = nAttempts'
             /\ outcome'[nAttempts'] = "pending"
             /\ probe'[nAttempts'] = "pending"
             /\ child'[nAttempts'] = "none"]_vars

\* The last attempt the bound allows is Running after every earlier one went
\* through a full cycle.
C9_Witness ==
    /\ isRunning
    /\ process = MaxAttempts
    /\ startupPromise = MaxAttempts
    /\ \A a \in 1..(MaxAttempts - 1) : child[a] = "exited" /\ outcome[a] = "fulfilled"

\* C10: every start() call's promise is eventually settled, and an attempt
\* whose startup timer fired is rejected with the startup-timeout error.
C10_NoDanglingStartup ==
    /\ [](\A a \in Attempts : startupTimeout[a] = "fired" =>
                outcome[a] = "rejected" /\ error[a] = "StartupTimeout")
    /\ \A i \in 1..MaxCalls :
          (i \in DOMAIN calls) ~> (i \in DOMAIN calls /\ CallOutcome(i) \in Settled)

\* A process was spawned, stayed silent and alive, and its attempt was
\* rejected by the timer.
C10_Witness ==
    \E a \in Attempts :
        /\ startupTimeout[a] = "fired"
        /\ firstSignal[a] = "timeout"
        /\ child[a] = "alive"
        /\ ~errored[a]
        /\ \E i \in DOMAIN calls : calls[i] = a /\ CallOutcome(i) = "rejected"

----------------------------------------------------------------------------
\* The states of the lifecycle, read off the controller's fields.

\* A startup attempt is the PendingStartup and has not settled.
Starting == startupPromise # 0 /\ outcome[startupPromise] = "pending"

\* A stop() has sent SIGTERM to the process and its exit is not yet observed.
Stopping ==
    \E i \in DOMAIN stops : stops[i].proc # 0 /\ child[stops[i].proc] = "alive"

\* C11 (as claimed): isRunning is false in Stopped (no process handle), in
\* Starting and in Stopping.
C11_IsRunningOnlyRunning ==
    (process = 0 \/ Starting \/ Stopping) => ~isRunning

\* C12: on a disabled controller every start() and stop() call fulfils at
\* once and nothing else ever happens: no attempt, no probe, no process, no
\* signal, and the three fields keep their initial values.
C12_DisabledNoOp ==
    ~enabled =>
        /\ process = 0 /\ ~isRunning /\ startupPromise = 0
        /\ nAttempts = 0
        /\ \A a \in Attempts :
              /\ probe[a] = "none" /\ outcome[a] = "none"
              /\ child[a] = "none" /\ signals[a] = {}
        /\ \A i \in DOMAIN calls : calls[i] = 0 /\ CallOutcome(i) = "fulfilled"
        /\ \A i \in DOMAIN stops :
              /\ stops[i].proc = 0 /\ stops[i].state = "fulfilled"
              /\ stops[i].timeout = "unset"

\* A disabled controller after start(), stop(), start().
C12_Witness ==
    /\ ~enabled
    /\ Len(calls) >= 2
    /\ Len(stops) >= 1

\* C14 (as claimed): once an attempt has rejected or its process has exited,
\* this.process does not hold that attempt's process.
C14_HandleNullWhenStopped ==
    \A a \in Attempts :
        (outcome[a] = "rejected" \/ child[a] = "exited") => process # a

\* C15 (as claimed): a start() call made while no process is alive (handle
\* null, isRunning false) returns a promise that is not already fulfilled:
\* it can fulfil only through a process spawned and ready after the call.
C15_NoStaleFulfilment ==
    [][(StartStep /\ enabled /\ process = 0 /\ ~isRunning)
        => CallOutcome(Len(calls))' # "fulfilled"]_vars

\* C16: at most one spawned child is alive (its exit not yet observed), and
\* a spawn happens only when no other child is alive.
C16_OneChildAlive ==
    /\ [](Cardinality({a \in Attempts : child[a] = "alive"}) <= 1)
    /\ [][\A a \in Attempts :
            (child[a] = "none" /\ child'[a] = "alive")
            => \A b \in Attempts \ {a} : child[b] # "alive"]_vars

\* A second process runs after the exit of the first was observed.
C16_Witness ==
    \E a, b \in Attempts : a # b /\ child[a] = "exited" /\ child[b] = "alive"

\* C17: an armed startup timer belongs to an attempt that has not settled,
\* an armed grace timer to a stop() whose process is the current one and has
\* not exited; a firing grace timer sends SIGKILL to the process its stop()
\* sent SIGTERM to and to no other; a firing startup timer changes no other
\* attempt.
C17_TimersOwnRun ==
    /\ [](\A a \in Attempts : startupTimeout[a] = "armed" =>
              ~resolved[a] /\ outcome[a] = "pending" /\ process = a)
    /\ [](\A i \in DOMAIN stops : stops[i].timeout = "armed" =>
              /\ child[stops[i].proc] = "alive"
              /\ process = stops[i].proc
              /\ "SIGTERM" \in signals[stops[i].proc])
    /\ [][\A i \in DOMAIN stops :
            (stops[i].timeout = "armed" /\ stops'[i].timeout = "fired")
            => signals' = [signals EXCEPT ![stops[i].proc] = @ \cup {"SIGKILL"}]]_vars
    /\ [][\A a \in Attempts :
            (startupTimeout[a] = "armed" /\ startupTimeout'[a] = "fired")
            => \A b \in Attempts \ {a} :
                  /\ outcome'[b] = outcome[b] /\ error'[b] = error[b]
                  /\ resolved'[b] = resolved[b] /\ signals'[b] = signals[b]]_vars

\* The stop() of the first run had its grace timer cleared by the exit; the
\* stop() of a later run escalated, and SIGKILL went to that run's process only.
C17_Witness ==
    \E i, j \in DOMAIN stops :
        /\ stops[i].proc # 0 /\ stops[j].proc # 0
        /\ stops[i].proc # stops[j].proc
        /\ stops[i].timeout = "cleared"
        /\ stops[j].timeout = "fired"
        /\ "SIGKILL" \notin signals[stops[i].proc]
        /\ "SIGKILL" \in signals[stops[j].proc]

\* Letter case folded away, for the words the chunks are made of.
Lower(w) ==
    CASE w \in {"Waiting", "WAITING", "waiting"} -> "waiting"
      [] w \in {"FOR", "for"} -> "for"
      [] w \in {"CONNECTIONS", "connections"} -> "connections"
      [] OTHER -> w

\* The chunk contains the readiness phrase in some letter case.
HasPhraseAnyCase(output) ==
    Includes([k \in DOMAIN output |-> Lower(output[k])],
             <<"waiting", "for", "connections">>)

\* C18 (as claimed): while an attempt is starting, a chunk on either stream
\* moves the controller to Running and fulfils the startup promise exactly
\* when it contains the readiness phrase in any letter case.
C18_ReadinessAnyCase ==
    \A a \in Attempts, stream \in Streams, output \in Chunks :
        (child[a] = "alive" /\ ~resolved[a]) =>
            LET T == onData(Cur, a, stream, output)
            IN HasPhraseAnyCase(output)
                  <=> (T.isRunning /\ T.outcome[a] = "fulfilled")

\* C20: isRunning implies that this.process is the live process of the
\* PendingStartup and that this startup has fulfilled; a data chunk for an
\* attempt that has rejected or whose process has exited leaves isRunning
\* as it is.
C20_RunningImpliesHandle ==
    /\ isRunning =>
          /\ process # 0
          /\ child[process] = "alive"
          /\ startupPromise = process
          /\ outcome[startupPromise] = "fulfilled"
    /\ \A a \in Attempts, stream \in Streams, output \in Chunks :
          (child[a] # "none" /\ (outcome[a] = "rejected" \/ child[a] = "exited"))
             => onData(Cur, a, stream, output).isRunning = isRunning

\* Attempt b is Running after the process of attempt a has exited, so a late
\* chunk of a would be handled while isRunning is true.
C20_Witness ==
    \E a, b \in Attempts :
        /\ child[a] = "exited"
        /\ isRunning
        /\ process = b
        /\ outcome[b] = "fulfilled"

\* The timer rejected attempt a; its process is still there to print the marker.
C20_WitnessRejected ==
    \E a \in Attempts :
        /\ outcome[a] = "rejected"
        /\ error[a] = "StartupTimeout"
        /\ child[a] = "alive"
        /\ ~isRunning

\* Every variable but the value getConnectionUri() returned.
varsButUri ==
    <<input, config, args, enabled, process, isRunning, startupPromise, nAttempts,
      probe, outcome, error, settleCalls, resolved, startupTimeout, firstSignal,
      child, errored, signals, calls, stops>>

\* C13: in every reachable state getConnectionUri() returns the loopback URI
\* of the port fixed at construction (the given port, or the default), and
\* so has every call made so far; a call changes nothing else, and no step
\* changes the configuration.
C13_UriFromConfigAlone ==
    /\ [](getConnectionUri(Cur)
            = "mongodb://127.0.0.1:" \o ToString(constructor(input).port))
    /\ [](uri # "none" =>
            uri = "mongodb://127.0.0.1:" \o ToString(constructor(input).port))
    /\ [][uri' # uri => UNCHANGED varsButUri]_vars
    /\ [][input' = input /\ config' = config /\ enabled' = enabled]_vars

\* getConnectionUri() was called on a controller configured with port 27018
\* whose startup was rejected and whose process is still alive.
C13_Witness ==
    /\ uri = "mongodb://127.0.0.1:27018"
    /\ \E a \in Attempts : outcome[a] = "rejected" /\ child[a] = "alive"

\* C19 (as claimed): the argument list of every spawn holds the data
\* directory, the port, the log path and --bind_ip 127.0.0.1, and holds the
\* cache-size flag with the given value exactly when the constructor was
\* given a cache size.
C19_ArgsCacheFlag ==
    \A a \in Attempts : child[a] # "none" =>
        /\ Len(args[a]) >= 8
        /\ SubSeq(args[a], 1, 8)
              = <<"--dbpath", config.dbPath, "--port", ToString(config.port),
                  "--logpath", config.logPath, "--bind_ip", "127.0.0.1">>
        /\ Has(input, "wiredTigerCacheSizeGB")
              <=> Includes(args[a], <<"--wiredTigerCacheSizeGB">>)
        /\ Has(input, "wiredTigerCacheSizeGB") =>
              Includes(args[a], <<"--wiredTigerCacheSizeGB",
                                  ToString(input.wiredTigerCacheSizeGB)>>)

====
